---- MODULE Spec2Model ----
(***************************************************************************)
(* Model of transform.py: loading tables, unifying the schema, merging,    *)
(* composing sorted rows and grouping by the dimension columns.            *)
(*                                                                         *)
(* A Python str is a sequence of one-character strings ("D1" is            *)
(* <<"D","1">>), so that indexing, slicing, int() and lexicographic        *)
(* comparison are computed as Python computes them.  A cell value is a     *)
(* tagged record: a str, an int or None.  A call returns Ok(value) or      *)
(* Raise(exception name).                                                  *)
(***************************************************************************)
EXTENDS Integers, Sequences, FiniteSets, TLC

VARIABLES source_list, index, complex_data, all_keys, sorted_keys,
          result_dataset, order_by, basic_result, advanced_result,
          regrouped, pc, outcome

vars == <<source_list, index, complex_data, all_keys, sorted_keys,
          result_dataset, order_by, basic_result, advanced_result,
          regrouped, pc, outcome>>

(* ------------------------------ values --------------------------------- *)

None == [k |-> "none", s |-> <<>>, n |-> 0]
Str(chars) == [k |-> "str", s |-> chars, n |-> 0]
Int_(number) == [k |-> "int", s |-> <<>>, n |-> number]

Ok(v) == [ok |-> TRUE, err |-> "", val |-> v]
Raise(e) == [ok |-> FALSE, err |-> e, val |-> None]

\* The characters that occur, in code point order.
Chars == <<"-", "0", "1", "2", "3", "4", "5", "6", "7", "8", "9",
           "A", "D", "M", "X", "a", "b", "c", "d", "x">>

Ord(c) == CHOOSE i \in 1..Len(Chars) : Chars[i] = c

IsDigit(c) == Ord(c) >= Ord("0") /\ Ord(c) <= Ord("9")

\* s[from:] of Python, from counted from 0.
SliceFrom(s, from) == IF from >= Len(s) THEN <<>> ELSE SubSeq(s, from + 1, Len(s))

\* s[:to] of Python.
SliceTo(s, to) == IF to >= Len(s) THEN s ELSE SubSeq(s, 1, to)

RECURSIVE DigitsValue(_)
DigitsValue(s) ==
    IF s = <<>> THEN 0
    ELSE 10 * DigitsValue(SubSeq(s, 1, Len(s) - 1)) + (Ord(s[Len(s)]) - Ord("0"))

AllDigits(s) == s # <<>> /\ \A i \in 1..Len(s) : IsDigit(s[i])

\* int(text) on a str: an optional minus sign and decimal digits.
int_of_str(s) ==
    IF AllDigits(s) THEN Ok(DigitsValue(s))
    ELSE IF s # <<>> /\ s[1] = "-" /\ AllDigits(SliceFrom(s, 1))
         THEN Ok(0 - DigitsValue(SliceFrom(s, 1)))
         ELSE Raise("ValueError")

\* int(cell), as map(int, values) applies it to a loaded value.
int_of_cell(c) ==
    IF c.k = "int" THEN Ok(c.n)
    ELSE IF c.k = "str" THEN int_of_str(c.s)
    ELSE Raise("TypeError")

(* --------------------------- comparison -------------------------------- *)

\* The first position where two sequences differ, 0 when one is a prefix of the other.
FirstDiff(a, b) ==
    LET m == IF Len(a) < Len(b) THEN Len(a) ELSE Len(b)
        D == {i \in 1..m : a[i] # b[i]}
    IN IF D = {} THEN 0 ELSE CHOOSE i \in D : \A j \in D : i <= j

\* str < str: lexicographic by code point.
StrLess(a, b) ==
    LET i == FirstDiff(a, b)
    IN IF i = 0 THEN Len(a) < Len(b) ELSE Ord(a[i]) < Ord(b[i])

\* Python orders str with str and int with int only.
CellComparable(x, y) == x.k = y.k /\ x.k # "none"

CellLess(x, y) == IF x.k = "int" THEN x.n < y.n ELSE StrLess(x.s, y.s)

\* tuple < tuple: the first differing components decide.
TupleComparable(a, b) ==
    LET i == FirstDiff(a, b) IN i = 0 \/ CellComparable(a[i], b[i])

TupleLess(a, b) ==
    LET i == FirstDiff(a, b)
    IN IF i = 0 THEN Len(a) < Len(b) ELSE CellLess(a[i], b[i])

(* ------------------------------ sorted --------------------------------- *)

\* InsertIndex that puts an element before the elements equal to it.
RECURSIVE InsertIndexBeforeEqual(_, _, _)
InsertIndexBeforeEqual(p, i, keys) ==
    IF p = <<>> THEN <<i>>
    ELSE LET last == p[Len(p)]
         IN IF ~TupleLess(keys[last], keys[i])
            THEN Append(InsertIndexBeforeEqual(SubSeq(p, 1, Len(p) - 1), i, keys), last)
            ELSE Append(p, i)

\* Insert position i into the positions p already in order; an element goes
\* after every element that is not greater than it (sorted() is stable).
RECURSIVE InsertIndex(_, _, _)
InsertIndex(p, i, keys) ==
    IF p = <<>> THEN <<i>>
    ELSE LET last == p[Len(p)]
         IN IF TupleLess(keys[i], keys[last])
            THEN Append(InsertIndex(SubSeq(p, 1, Len(p) - 1), i, keys), last)
            ELSE Append(p, i)

RECURSIVE SortedIndex(_, _)
SortedIndex(n, keys) ==
    IF n = 0 THEN <<>> ELSE InsertIndex(SortedIndex(n - 1, keys), n, keys)

\* sorted that leaves the items in the order given.
sorted_as_given(items, keys) == Ok(items)

\* sorted(items, key=...): keys[i] is the key tuple of items[i].  A comparison
\* of a str with an int raises TypeError.
sorted(items, keys) ==
    IF \E i, j \in 1..Len(items) : i < j /\ ~TupleComparable(keys[i], keys[j])
    THEN Raise("TypeError")
    ELSE LET p == SortedIndex(Len(items), keys)
         IN Ok([i \in 1..Len(items) |-> items[p[i]]])

(* ----------------------------- sort_keys ------------------------------- *)

\* lambda s: (str(s[0]), int(s[1:]))
SortKeyOf(s) ==
    IF s = <<>> THEN Raise("IndexError")
    ELSE LET idx == int_of_str(SliceFrom(s, 1))
         IN IF idx.ok THEN Ok(<<Str(<<s[1]>>), Int_(idx.val)>>) ELSE idx

sort_keys(data) ==
    LET key == [i \in 1..Len(data) |-> SortKeyOf(data[i])]
        bad == {i \in 1..Len(data) : ~key[i].ok}
    IN IF bad # {}
       THEN key[CHOOSE i \in bad : \A j \in bad : i <= j]
       ELSE sorted(data, [i \in 1..Len(data) |-> key[i].val])

(* ------------------------- column names -------------------------------- *)

startswith(column, c) == column # <<>> /\ column[1] = c

\* "D" in column
ContainsD(column) == \E i \in 1..Len(column) : column[i] = "D"

Range(s) == {s[i] : i \in 1..Len(s)}

NoRepeat(s) == \A i, j \in 1..Len(s) : i # j => s[i] # s[j]

(* ---------------------------- group_values ----------------------------- *)

\* A row matrix: data[0] is the header, data[1:] are the data rows.
Matrix(header, rows) == [header |-> header, rows |-> rows]

\* list(set(keys)): each key once.  The order of a set is arbitrary; the
\* order of first occurrence is taken, and group_values sorts the list next.
RECURSIVE Unique(_)
Unique(s) ==
    IF s = <<>> THEN <<>>
    ELSE LET front == SubSeq(s, 1, Len(s) - 1)
             rest == Unique(front)
         IN IF s[Len(s)] \in Range(front) THEN rest ELSE Append(rest, s[Len(s)])

\* [1] * value_count
OneVector(value_count) == [i \in 1..value_count |-> 1]

\* [0] * value_count
ZeroVector(value_count) == [i \in 1..value_count |-> 0]

\* AddValues with "=" in place of "+=".
AddValuesOverwriting(acc, values, i) ==
    IF Len(values) > Len(acc) THEN Raise("IndexError")
    ELSE IF \E j \in 1..Len(values) : values[j].k # "int" THEN Raise("TypeError")
    ELSE Ok([j \in 1..Len(acc) |-> IF j <= Len(values) THEN values[j].n ELSE acc[j]])

\* for index, value in enumerate(values): grouped_data[this_key][index] += value
\* (i is index + 1)
RECURSIVE AddValues(_, _, _)
AddValues(acc, values, i) ==
    IF i > Len(values) THEN Ok(acc)
    ELSE IF i > Len(acc) THEN Raise("IndexError")
    ELSE IF values[i].k # "int" THEN Raise("TypeError")
    ELSE AddValues([acc EXCEPT ![i] = @ + values[i].n], values, i + 1)

\* for this_key, values in splitted_rows: ...
RECURSIVE FillGroups(_, _, _)
FillGroups(grouped_data, splitted_rows, r) ==
    IF r > Len(splitted_rows) THEN Ok(grouped_data)
    ELSE LET this_key == splitted_rows[r][1]
             added == AddValues(grouped_data[this_key], splitted_rows[r][2], 1)
         IN IF added.ok
            THEN FillGroups([grouped_data EXCEPT ![this_key] = added.val],
                            splitted_rows, r + 1)
            ELSE added

group_values(data) ==
    LET index_count == Cardinality({i \in 1..Len(data.header) : ContainsD(data.header[i])})
        value_count == Len(data.header) - index_count
        splitted_rows == [r \in 1..Len(data.rows) |->
                             <<SliceTo(data.rows[r], index_count),
                               SliceFrom(data.rows[r], index_count)>>]
        unique_keys == Unique([r \in 1..Len(data.rows) |-> splitted_rows[r][1]])
        sorted_keys_ == sorted(unique_keys, unique_keys)
    IN IF data.rows = <<>> THEN Raise("IndexError")
       ELSE IF ~sorted_keys_.ok THEN sorted_keys_
       ELSE LET filled == FillGroups([key \in Range(unique_keys) |-> ZeroVector(value_count)],
                                     splitted_rows, 1)
            IN IF ~filled.ok THEN filled
               ELSE Ok(Matrix(data.header,
                        [g \in 1..Len(sorted_keys_.val) |->
                            sorted_keys_.val[g] \o
                            [j \in 1..value_count |->
                                Int_(filled.val[sorted_keys_.val[g]][j])]]))

(* ------------------------------ tables --------------------------------- *)

\* A dict of columns: the keys in insertion order and the list of each key.
Dict(keys, vals) == [keys |-> keys, vals |-> vals]

Repeat(v, n) == [i \in 1..n |-> v]

Min(S) == CHOOSE x \in S : \A y \in S : x <= y

(* ------------------------------ loading --------------------------------- *)

\* str.lower() on the letters that occur in upper case.
LowerChar(c) ==
    CASE c = "C" -> "c" [] c = "S" -> "s" [] c = "V" -> "v" [] c = "X" -> "x"
      [] c = "M" -> "m" [] c = "L" -> "l" [] OTHER -> c

lower(s) == [i \in 1..Len(s) |-> LowerChar(s[i])]

\* The adapters read the file named by source; what they find is source.table.
load_xml(source) == source.table
load_json(source) == source.table
load_csv(source) == source.table

\* source.ext is source.rsplit(".")[-1].
load_by_extension(source) ==
    LET extension == lower(source.ext)
    IN IF extension = <<"j", "s", "o", "n">> THEN load_json(source)
       ELSE IF extension = <<"x", "m", "l">> THEN load_xml(source)
       ELSE IF extension = <<"c", "s", "v">> THEN load_csv(source)
       ELSE None

\* The first cell, in column order, that int() rejects: <<column position, row>>.
FirstRejected(data) ==
    LET bad == {w \in UNION {{<<c, r>> : r \in 1..Len(data.vals[data.keys[c]])} :
                             c \in 1..Len(data.keys)} :
                    /\ startswith(data.keys[w[1]], "M")
                    /\ ~int_of_cell(data.vals[data.keys[w[1]]][w[2]]).ok}
    IN IF bad = {} THEN <<>>
       ELSE CHOOSE w \in bad :
                \A v \in bad : w[1] < v[1] \/ (w[1] = v[1] /\ w[2] <= v[2])

format_values(data) ==
    IF data = None THEN Raise("AttributeError")
    ELSE LET w == FirstRejected(data)
         IN IF w # <<>> THEN int_of_cell(data.vals[data.keys[w[1]]][w[2]])
            ELSE Ok(Dict(data.keys,
                    [column \in Range(data.keys) |->
                        IF startswith(column, "M")
                        THEN [r \in 1..Len(data.vals[column]) |->
                                 Int_(int_of_cell(data.vals[column][r]).val)]
                        ELSE data.vals[column]]))

(* ------------------------------ merging --------------------------------- *)

\* All the column names of all datasets, each once.
result_columns_of_all(datasets) ==
    IF datasets = <<>> THEN Raise("IndexError")
    ELSE LET RECURSIVE Names(_)
             Names(n) == IF n = 0 THEN <<>> ELSE Names(n - 1) \o datasets[n].keys
         IN Ok(Unique(Names(Len(datasets))))

\* all_keys = list(set(complex_data[0].keys())): the column names of the
\* first dataset.
result_columns(datasets) ==
    IF datasets = <<>> THEN Raise("IndexError") ELSE Ok(datasets[1].keys)

\* [""] * row_count for a D column, [0] * row_count for another one.
FillerSwapped(column) == IF startswith(column, "D") THEN Int_(0) ELSE Str(<<>>)

Filler(column) == IF startswith(column, "D") THEN Str(<<>>) ELSE Int_(0)

\* One pass of "for index, dataset in enumerate(complex_data)".
collect_dataset(result, dataset, columns) ==
    IF dataset.keys = <<>> THEN Raise("IndexError")
    ELSE LET row_count == Len(dataset.vals[dataset.keys[1]])
         IN Ok(Dict(result.keys,
                [column \in Range(columns) |->
                    result.vals[column] \o
                        (IF column \in Range(dataset.keys)
                         THEN dataset.vals[column]
                         ELSE Repeat(Filler(column), row_count))]))

(* ---------------------------- compose_rows ------------------------------ *)

\* rows[0].index(order_by), counted from 1; 0 when order_by is no column.
IndexOf(s, x) ==
    IF x \in Range(s) THEN Min({i \in 1..Len(s) : s[i] = x}) ELSE 0

\* list(zip(*data.values())): as many rows as the shortest column has values.
ZipColumns(data) ==
    LET n == IF data.keys = <<>> THEN 0
             ELSE Min({Len(data.vals[data.keys[c]]) : c \in 1..Len(data.keys)})
    IN [r \in 1..n |-> [c \in 1..Len(data.keys) |-> data.vals[data.keys[c]][r]]]

compose_rows(data, order) ==
    LET order_index == IndexOf(data.keys, order)
        set_of_values == ZipColumns(data)
        sorted_set == sorted(set_of_values,
                             [r \in 1..Len(set_of_values) |->
                                 <<set_of_values[r][order_index]>>])
    IN IF order_index = 0 THEN Raise("ValueError")
       ELSE IF ~sorted_set.ok THEN sorted_set
       ELSE Ok(Matrix(data.keys, sorted_set.val))

(* ======================= checking sort_keys ============================ *)

MaxCols == 3

NamePool == {<<"D", "1">>, <<"D", "2">>, <<"D", "1", "0">>, <<"M", "1">>,
             <<"M", "2">>, <<"A", "1">>, <<"X", "1">>, <<"D", "x">>}

InitSort ==
    /\ \E n \in 0..MaxCols : all_keys \in [1..n -> NamePool]
    /\ NoRepeat(all_keys)
    /\ pc = "sort_keys"
    /\ outcome = "running"
    /\ sorted_keys = <<>>
    /\ source_list = <<>>
    /\ index = 0
    /\ complex_data = <<>>
    /\ result_dataset = None
    /\ order_by = <<>>
    /\ basic_result = None
    /\ advanced_result = None
    /\ regrouped = None

CallSortKeys ==
    /\ pc = "sort_keys"
    /\ LET r == sort_keys(all_keys)
       IN /\ sorted_keys' = (IF r.ok THEN r.val ELSE <<>>)
          /\ outcome' = (IF r.ok THEN "ok" ELSE r.err)
    /\ pc' = "done"
    /\ UNCHANGED <<source_list, index, complex_data, all_keys, result_dataset,
                   order_by, basic_result, advanced_result, regrouped>>

NextSort == CallSortKeys

SpecSort == InitSort /\ [][NextSort]_vars

IsDimension(column) == startswith(column, "D")

\* C9: whenever sort_keys returns, every D column stands before every column
\* of another prefix, whatever that prefix is.
C9_DimensionsFirst ==
    (pc = "done" /\ outcome = "ok") =>
        \A i, j \in 1..Len(sorted_keys) :
            (IsDimension(sorted_keys[j]) /\ ~IsDimension(sorted_keys[i])) => j < i

(* ====================== checking group_values ========================== *)

MaxGroupRows == 3

DimensionCells == {Str(<<"a">>), Str(<<"b">>)}

MeasureCells == {Int_(1), Int_(2)}

GroupHeaders == {<<<<"D", "1">>, <<"M", "1">>>>,
                 <<<<"D", "1">>, <<"D", "2">>, <<"M", "1">>>>,
                 <<<<"D", "1">>, <<"M", "1">>, <<"M", "2">>>>,
                 <<<<"D", "1">>>>,
                 <<<<"M", "1">>>>,
                 <<<<"A", "1">>, <<"D", "1">>>>}

\* The rows whose cells have the type of their column.
RowsOf(header) ==
    {row \in [1..Len(header) -> DimensionCells \cup MeasureCells] :
        \A i \in 1..Len(header) :
            row[i] \in (IF IsDimension(header[i]) THEN DimensionCells ELSE MeasureCells)}

\* Row r made one cell shorter, or one cell longer.
Shortened(rows, r) == [rows EXCEPT ![r] = SubSeq(@, 1, Len(@) - 1)]
Lengthened(rows, r) == [rows EXCEPT ![r] = Append(@, Int_(1))]

\* The rows as they are, or with one row of another width than the header.
WithRowWidths(rows) ==
    {rows} \cup {Shortened(rows, r) : r \in 1..Len(rows)}
           \cup {Lengthened(rows, r) : r \in 1..Len(rows)}

InitGroup ==
    /\ \E header \in GroupHeaders :
         \E n \in 0..MaxGroupRows :
           \E rows \in [1..n -> RowsOf(header)] :
             \E data_rows \in WithRowWidths(rows) :
                basic_result = Matrix(header, data_rows)
    /\ pc = "group_values"
    /\ outcome = "running"
    /\ advanced_result = None
    /\ regrouped = None
    /\ source_list = <<>>
    /\ index = 0
    /\ complex_data = <<>>
    /\ all_keys = <<>>
    /\ sorted_keys = <<>>
    /\ result_dataset = None
    /\ order_by = <<>>

CallGroupValues ==
    /\ pc = "group_values"
    /\ LET r == group_values(basic_result)
       IN /\ advanced_result' = r.val
          /\ outcome' = (IF r.ok THEN "ok" ELSE r.err)
          /\ pc' = (IF r.ok THEN "group_again" ELSE "done")
    /\ UNCHANGED <<source_list, index, complex_data, all_keys, sorted_keys,
                   result_dataset, order_by, basic_result, regrouped>>

\* group_values applied to its own result.
CallGroupValuesAgain ==
    /\ pc = "group_again"
    /\ regrouped' = group_values(advanced_result).val
    /\ pc' = "done"
    /\ UNCHANGED <<source_list, index, complex_data, all_keys, sorted_keys,
                   result_dataset, order_by, basic_result, advanced_result,
                   outcome>>

NextGroup == CallGroupValues \/ CallGroupValuesAgain

SpecGroup == InitGroup /\ [][NextGroup]_vars

\* The positions of the dimension columns and of the measure columns.
DimensionPositions(header) == {i \in 1..Len(header) : IsDimension(header[i])}
MeasurePositions(header) == {i \in 1..Len(header) : ~IsDimension(header[i])}

\* All dimension columns precede all measure columns.
DimensionsLead(header) ==
    \A i \in DimensionPositions(header) : \A j \in MeasurePositions(header) : i < j

\* The GroupKey of a row: its cells in the dimension columns.
GroupKey(header, row) == [i \in 1..Cardinality(DimensionPositions(header)) |-> row[i]]

RectangularRows(data) == \A r \in 1..Len(data.rows) : Len(data.rows[r]) = Len(data.header)

\* What group_values is specified for: dimensions first, rows of the header's
\* width, at least one data row.
GroupableInput(data) ==
    /\ DimensionsLead(data.header)
    /\ RectangularRows(data)
    /\ data.rows # <<>>

RECURSIVE SumOfColumn(_, _, _)
\* The sum of column j over the rows whose position is in the set keep.
SumOfColumn(rows, j, keep) ==
    IF keep = {} THEN 0
    ELSE LET r == CHOOSE x \in keep : TRUE
         IN rows[r][j].n + SumOfColumn(rows, j, keep \ {r})

RowsWithKey(data, key) ==
    {r \in 1..Len(data.rows) : GroupKey(data.header, data.rows[r]) = key}

Grouped == pc \in {"group_again", "done"}

\* C3: in the result every row's measures are the sums of the measures of the
\* input rows with that row's GroupKey, and every measure column has the same
\* total in the result as in the input.
C3_SumInvariant ==
    (Grouped /\ GroupableInput(basic_result)) =>
        /\ outcome = "ok"
        /\ \A g \in 1..Len(advanced_result.rows) :
             \A j \in MeasurePositions(basic_result.header) :
                advanced_result.rows[g][j] =
                    Int_(SumOfColumn(basic_result.rows, j,
                            RowsWithKey(basic_result,
                                GroupKey(basic_result.header, advanced_result.rows[g]))))
        /\ \A j \in MeasurePositions(basic_result.header) :
             SumOfColumn(advanced_result.rows, j, 1..Len(advanced_result.rows))
                = SumOfColumn(basic_result.rows, j, 1..Len(basic_result.rows))

\* Two input rows share a GroupKey, a third has another one, and the rows were grouped.
C3_Witness ==
    /\ Grouped /\ GroupableInput(basic_result) /\ outcome = "ok"
    /\ MeasurePositions(basic_result.header) # {}
    /\ \E r1, r2, r3 \in 1..Len(basic_result.rows) :
         /\ r1 # r2
         /\ GroupKey(basic_result.header, basic_result.rows[r1])
              = GroupKey(basic_result.header, basic_result.rows[r2])
         /\ GroupKey(basic_result.header, basic_result.rows[r1])
              # GroupKey(basic_result.header, basic_result.rows[r3])

\* C4: the result is the input's header followed by one row for each
\* GroupKey of the input, in strictly ascending order of the GroupKey.
C4_OneRowPerKeyAscending ==
    (Grouped /\ GroupableInput(basic_result)) =>
        /\ outcome = "ok"
        /\ advanced_result.header = basic_result.header
        /\ {GroupKey(basic_result.header, advanced_result.rows[g]) :
                g \in 1..Len(advanced_result.rows)}
             = {GroupKey(basic_result.header, basic_result.rows[r]) :
                r \in 1..Len(basic_result.rows)}
        /\ \A g, h \in 1..Len(advanced_result.rows) :
             g < h => TupleLess(GroupKey(basic_result.header, advanced_result.rows[g]),
                                GroupKey(basic_result.header, advanced_result.rows[h]))

\* The input has a repeated GroupKey and its keys are not in ascending order.
C4_Witness ==
    /\ Grouped /\ GroupableInput(basic_result) /\ outcome = "ok"
    /\ \E r1, r2, r3 \in 1..Len(basic_result.rows) :
         /\ r1 < r2 /\ r2 < r3
         /\ GroupKey(basic_result.header, basic_result.rows[r1])
              = GroupKey(basic_result.header, basic_result.rows[r3])
         /\ TupleLess(GroupKey(basic_result.header, basic_result.rows[r2]),
                      GroupKey(basic_result.header, basic_result.rows[r1]))

\* C7: group_values of the result of group_values is that result.
C7_Idempotent ==
    (pc = "done" /\ GroupableInput(basic_result)) =>
        (outcome = "ok" /\ regrouped = advanced_result)

\* Rows were merged by the first call, and the second call has returned.
C7_Witness ==
    /\ pc = "done" /\ GroupableInput(basic_result) /\ outcome = "ok"
    /\ regrouped # None
    /\ MeasurePositions(basic_result.header) # {}
    /\ Len(advanced_result.rows) > 1
    /\ Len(advanced_result.rows) < Len(basic_result.rows)

\* C8: group_values raises whenever a data row is not as wide as the header.
C8_RaisesOnRowWidth ==
    (Grouped /\ ~RectangularRows(basic_result)) => outcome # "ok"

(* ====================== checking compose_rows ========================== *)

MaxComposeRows == 3

ComposeKeys == <<<<"D", "1">>, <<"M", "1">>>>

ComposeCells(column) ==
    IF IsDimension(column) THEN {Str(<<>>), Str(<<"a">>), Str(<<"b">>)}
    ELSE {Int_(0), Int_(1), Int_(2)}

\* A merged table with columns D1 and M1 of the same length.
InitCompose ==
    /\ \E n \in 0..MaxComposeRows :
         \E d \in [1..n -> ComposeCells(ComposeKeys[1])] :
           \E m \in [1..n -> ComposeCells(ComposeKeys[2])] :
              result_dataset = Dict(ComposeKeys,
                                    [column \in Range(ComposeKeys) |->
                                        IF column = ComposeKeys[1] THEN d ELSE m])
    /\ order_by \in {<<"D", "1">>, <<"M", "1">>, <<"D", "2">>}
    /\ pc = "compose_rows"
    /\ outcome = "running"
    /\ basic_result = None
    /\ advanced_result = None
    /\ regrouped = None
    /\ source_list = <<>>
    /\ index = 0
    /\ complex_data = <<>>
    /\ all_keys = <<>>
    /\ sorted_keys = <<>>

CallComposeRows ==
    /\ pc = "compose_rows"
    /\ LET r == compose_rows(result_dataset, order_by)
       IN /\ basic_result' = r.val
          /\ outcome' = (IF r.ok THEN "ok" ELSE r.err)
    /\ pc' = "done"
    /\ UNCHANGED <<source_list, index, complex_data, all_keys, sorted_keys,
                   result_dataset, order_by, advanced_result, regrouped>>

NextCompose == CallComposeRows

SpecCompose == InitCompose /\ [][NextCompose]_vars

Injections(n) == {p \in [1..n -> 1..n] : \A i, j \in 1..n : i # j => p[i] # p[j]}

\* Row r of a column-oriented table.
RowOf(data, r) == [c \in 1..Len(data.keys) |-> data.vals[data.keys[c]][r]]

RowTotal(data) == Len(data.vals[data.keys[1]])

\* rows are the rows of data rearranged by a permutation that keeps the rows
\* of equal value in column o in their order, and ascend in column o.
StableAscendingRearrangement(data, rows, o) ==
    /\ Len(rows) = RowTotal(data)
    /\ \E p \in Injections(Len(rows)) :
         /\ \A i \in 1..Len(rows) : rows[i] = RowOf(data, p[i])
         /\ \A i, j \in 1..Len(rows) :
              (i < j /\ rows[i][o] = rows[j][o]) => p[i] < p[j]
    /\ \A i, j \in 1..Len(rows) : i < j => ~CellLess(rows[j][o], rows[i][o])

\* C6: compose_rows returns the column names followed by the rows of the
\* merged table in ascending order of the order_by column, rows of equal
\* order_by value in their order in the merged table.
C6_StableSortedRows ==
    (pc = "done" /\ order_by \in Range(result_dataset.keys)) =>
        /\ outcome = "ok"
        /\ basic_result.header = result_dataset.keys
        /\ StableAscendingRearrangement(result_dataset, basic_result.rows,
                                        IndexOf(result_dataset.keys, order_by))

\* The merged table is out of order and has two different rows of equal
\* order_by value, and compose_rows has returned.
C6_Witness ==
    /\ pc = "done" /\ outcome = "ok"
    /\ order_by \in Range(result_dataset.keys)
    /\ LET o == IndexOf(result_dataset.keys, order_by)
       IN \E r1, r2, r3 \in 1..RowTotal(result_dataset) :
            /\ r1 < r2 /\ r2 < r3
            /\ RowOf(result_dataset, r1)[o] = RowOf(result_dataset, r3)[o]
            /\ RowOf(result_dataset, r1) # RowOf(result_dataset, r3)
            /\ CellLess(RowOf(result_dataset, r2)[o], RowOf(result_dataset, r1)[o])

(* ========================= the whole program =========================== *)

MaxSources == 3
MaxTableRows == 2

Letters == <<"a", "b", "c", "d">>
Numerals == <<"1", "2", "3", "4">>

\* What a file holds in row r of a column: text, as a csv file gives it.
FileCell(column, r) ==
    IF IsDimension(column) THEN Str(<<Letters[r]>>) ELSE Str(<<Numerals[r]>>)

FileTable(columns, n) ==
    Dict(columns, [column \in Range(columns) |-> [r \in 1..n |-> FileCell(column, r)]])

FileColumns == {<<<<"D", "1">>>>,
                <<<<"M", "1">>>>,
                <<<<"M", "1">>, <<"D", "1">>>>,
                <<<<"D", "1">>, <<"X", "1">>>>}

\* The files there are: csv files of each shape with one row or more, a json
\* file whose numbers are numbers, an xml file without columns, and a file of
\* another type.
Files ==
    {[ext |-> <<"c", "s", "v">>, table |-> FileTable(columns, n)] :
        columns \in FileColumns, n \in 1..MaxTableRows}
    \cup {[ext |-> <<"j", "s", "o", "n">>,
           table |-> Dict(<<<<"D", "1">>, <<"M", "2">>>>,
                          [column \in {<<"D", "1">>, <<"M", "2">>} |->
                              IF IsDimension(column) THEN <<Str(<<"b">>)>>
                              ELSE <<Int_(3)>>])],
          [ext |-> <<"X", "M", "L">>, table |-> Dict(<<>>, <<>>)],
          [ext |-> <<"t", "x", "t">>, table |-> None]}

Supported(source) == lower(source.ext) \in {<<"j", "s", "o", "n">>, <<"x", "m", "l">>,
                                            <<"c", "s", "v">>}

Init ==
    /\ \E n \in 0..MaxSources : source_list \in [1..n -> Files]
    /\ index = 0
    /\ complex_data = <<>>
    /\ pc = "load_all"
    /\ outcome = "running"
    /\ all_keys = <<>>
    /\ sorted_keys = <<>>
    /\ result_dataset = None
    /\ order_by = <<"D", "1">>
    /\ basic_result = None
    /\ advanced_result = None
    /\ regrouped = None

\* load_all: one pass of "for source in source_list".
LoadSource ==
    /\ pc = "load_all"
    /\ index < Len(source_list)
    /\ LET new_data == format_values(load_by_extension(source_list[index + 1]))
       IN IF ~new_data.ok
          THEN /\ pc' = "load_all_raised"
               /\ outcome' = new_data.err
               /\ UNCHANGED <<index, complex_data>>
          ELSE /\ complex_data' = (IF new_data.val # None
                                   THEN Append(complex_data, new_data.val)
                                   ELSE complex_data)
               /\ index' = index + 1
               /\ UNCHANGED <<pc, outcome>>
    /\ UNCHANGED <<source_list, all_keys, sorted_keys, result_dataset, order_by,
                   basic_result, advanced_result, regrouped>>

\* load_all returns; the result columns are named and sorted and the result
\* dataset is created with an empty list for each.
NameColumns ==
    /\ pc = "load_all"
    /\ index = Len(source_list)
    /\ LET names == result_columns(complex_data)
           keys == IF names.ok THEN sort_keys(names.val) ELSE names
       IN IF ~keys.ok
          THEN /\ pc' = "raised"
               /\ outcome' = keys.err
               /\ UNCHANGED <<all_keys, sorted_keys, result_dataset, index>>
          ELSE /\ all_keys' = names.val
               /\ sorted_keys' = keys.val
               /\ result_dataset' = Dict(keys.val, [key \in Range(keys.val) |-> <<>>])
               /\ index' = 0
               /\ pc' = "collect"
               /\ UNCHANGED outcome
    /\ UNCHANGED <<source_list, complex_data, order_by, basic_result,
                   advanced_result, regrouped>>

\* One pass of "for index, dataset in enumerate(complex_data)".
CollectDataset ==
    /\ pc = "collect"
    /\ index < Len(complex_data)
    /\ LET r == collect_dataset(result_dataset, complex_data[index + 1], sorted_keys)
       IN IF ~r.ok
          THEN /\ pc' = "raised"
               /\ outcome' = r.err
               /\ UNCHANGED <<result_dataset, index>>
          ELSE /\ result_dataset' = r.val
               /\ index' = index + 1
               /\ UNCHANGED <<pc, outcome>>
    /\ UNCHANGED <<source_list, complex_data, all_keys, sorted_keys, order_by,
                   basic_result, advanced_result, regrouped>>

\* sorted_result, then basic_result = compose_rows(sorted_result).
ComposeBasic ==
    /\ pc = "collect"
    /\ index = Len(complex_data)
    /\ LET r == compose_rows(result_dataset, order_by)
       IN IF ~r.ok
          THEN /\ pc' = "raised"
               /\ outcome' = r.err
               /\ UNCHANGED basic_result
          ELSE /\ basic_result' = r.val
               /\ pc' = "group_values"
               /\ UNCHANGED outcome
    /\ UNCHANGED <<source_list, index, complex_data, all_keys, sorted_keys,
                   result_dataset, order_by, advanced_result, regrouped>>

\* advanced_result = group_values(basic_result)
GroupAdvanced ==
    /\ pc = "group_values"
    /\ LET r == group_values(basic_result)
       IN /\ advanced_result' = r.val
          /\ outcome' = (IF r.ok THEN "ok" ELSE r.err)
          /\ pc' = (IF r.ok THEN "done" ELSE "raised")
    /\ UNCHANGED <<source_list, index, complex_data, all_keys, sorted_keys,
                   result_dataset, order_by, basic_result, regrouped>>

Next == LoadSource \/ NameColumns \/ CollectDataset \/ ComposeBasic \/ GroupAdvanced

Spec == Init /\ [][Next]_vars

SchemaBuilt == pc \in {"collect", "group_values", "done"}

\* The column names of all loaded tables.
AllColumnNames == UNION {Range(complex_data[d].keys) : d \in 1..Len(complex_data)}

\* C1 as stated: the schema is the union of the column names of all loaded tables.
C1_SchemaIsUnion ==
    SchemaBuilt =>
        /\ Range(sorted_keys) = AllColumnNames
        /\ DOMAIN result_dataset.vals = AllColumnNames

\* C1: the schema holds exactly the column names of the first loaded table,
\* each once, and they are the columns of the merged table; a column that
\* only a later table has is no column of the schema.
C1_SchemaIsFirstTable ==
    SchemaBuilt =>
        /\ Range(sorted_keys) = Range(complex_data[1].keys)
        /\ NoRepeat(sorted_keys)
        /\ result_dataset.keys = sorted_keys
        /\ DOMAIN result_dataset.vals = Range(sorted_keys)

\* Three tables were merged, and a later one has a column the first has not.
C1_Witness ==
    /\ pc = "group_values"
    /\ Len(complex_data) = 3
    /\ \E d \in 2..3 : ~(Range(complex_data[d].keys) \subseteq Range(complex_data[1].keys))
    /\ \E d \in 2..3 : ~(Range(complex_data[1].keys) \subseteq Range(complex_data[d].keys))

Unsupported == {i \in 1..Len(source_list) : ~Supported(source_list[i])}

\* C2: load_all returns although a source has an unsupported extension, with
\* one table for each of the other sources.
C2_UnsupportedSkipped ==
    (pc # "load_all" /\ Unsupported # {}) =>
        /\ pc # "load_all_raised"
        /\ Len(complex_data) = Len(source_list) - Cardinality(Unsupported)

\* The common length of the columns of a table.
RowCount(dataset) == Len(dataset.vals[CHOOSE column \in Range(dataset.keys) : TRUE])

RECURSIVE RowsUpTo(_)
RowsUpTo(d) == IF d = 0 THEN 0 ELSE RowsUpTo(d - 1) + RowCount(complex_data[d])

\* What table d gives to a column of the merged table.
Share(column, d) ==
    IF column \in Range(complex_data[d].keys)
    THEN complex_data[d].vals[column]
    ELSE Repeat(IF IsDimension(column) THEN Str(<<>>) ELSE Int_(0),
                RowCount(complex_data[d]))

\* The number of tables merged so far.
Collected == IF pc = "collect" THEN index ELSE Len(complex_data)

\* C5: once d tables are merged, every column of the merged table is as long
\* as those tables have rows, and its part for each table, at the table's
\* place, is the table's column or, where the table has none, as many
\* fillers as the table has rows: "" for a D column, 0 for another.
C5_RowAccounting ==
    SchemaBuilt =>
        \A column \in Range(sorted_keys) :
            /\ Len(result_dataset.vals[column]) = RowsUpTo(Collected)
            /\ \A d \in 1..Collected :
                 SubSeq(result_dataset.vals[column],
                        RowsUpTo(d - 1) + 1, RowsUpTo(d)) = Share(column, d)

\* Three tables are merged; the second lacks a D column of the schema and
\* the third lacks a measure column of it.
C5_Witness ==
    /\ pc = "group_values"
    /\ Len(complex_data) = 3
    /\ \E column \in Range(sorted_keys) :
         IsDimension(column) /\ column \notin Range(complex_data[2].keys)
    /\ \E column \in Range(sorted_keys) :
         ~IsDimension(column) /\ column \notin Range(complex_data[3].keys)
    /\ RowCount(complex_data[2]) # RowCount(complex_data[3])

\* C10: after normalization every value of every column whose name does not
\* start with D is an integer.
C10_MeasuresAreIntegers ==
    \A d \in 1..Len(complex_data) :
        \A column \in Range(complex_data[d].keys) :
            ~IsDimension(column) =>
                \A r \in 1..Len(complex_data[d].vals[column]) :
                    complex_data[d].vals[column][r].k = "int"

====
